---- MODULE Spec2Model ----
(***************************************************************************)
(* Model of deepseek_chat.py: the SQLite store (users, conversations,      *)
(* messages, prompt_templates), the four managers and the DeepSeekChat     *)
(* facade with its in-memory api_clients cache.                            *)
(*                                                                         *)
(* Tables are sets (or, for messages, a rowid-ordered sequence) of row     *)
(* records.  AUTOINCREMENT keys come from seq, the sqlite_sequence table:  *)
(* a key is never reused after a delete.  created_at is kept only for      *)
(* messages, the one table whose readers order by it; CURRENT_TIMESTAMP    *)
(* has one-second resolution, so the clock `now` advances in whole ticks   *)
(* and several inserts can share one value.                                *)
(*                                                                         *)
(* ret is the outcome of the last operation (name, arguments, raised       *)
(* error, returned value); request is the call that operation made to the  *)
(* external chat API, if any.                                              *)
(***************************************************************************)
EXTENDS Integers, Sequences, FiniteSets, TLC

VARIABLES users, conversations, messages, prompt_templates, seq,
          api_clients, now, ret, request

vars == <<users, conversations, messages, prompt_templates, seq,
          api_clients, now, ret, request>>

----------------------------------------------------------------------------
(* Bounds *)

MaxUsers == 2
MaxConvs == 2
MaxMsgs == 3
MaxTemplates == 2
MaxTime == 1

(* Input domains *)

NULL == "NULL"
NoAttr == "NoAttr"
Usernames == {"alice", "2"}
Secrets == {"k1", "k2"}
Titles == {"t1"}
Models == {"deepseek-chat", "deepseek-reasoner"}
Prompts == {"be helpful"}
UserTexts == {"hi"}
Names == {"assistant", "coder"}
TemplateContents == {"v1", "v2"}
UserIds == 1..MaxUsers
ConvIds == 1..MaxConvs
TemplateIds == 1..MaxTemplates

(* The contents of a first send and of the send that follows it. *)
Questions == {"hi", "hi again"}

(* The prompts given to the /prompt command of the demo. *)
NewPrompts == {"be brief"}

AppendInputs ==
    { <<"system", "be helpful", NULL>>,
      <<"user", "hi", NULL>>,
      <<"assistant", "a", "r1">> }

Responses ==
    { [raised |-> TRUE, content |-> "a", reasoning_content |-> NoAttr] }
    \cup [raised : {FALSE}, content : {"a"}, reasoning_content : {"r1", NoAttr}]

NoRequest == << >>

(* A dict: a function on the set of its keys. *)
EmptyMap == [k \in {} |-> NULL]
Put(map, key, value) ==
    [k \in DOMAIN map \cup {key} |-> IF k = key THEN value ELSE map[k]]

Ret(op, args, err, val) == [op |-> op, args |-> args, err |-> err, val |-> val]

----------------------------------------------------------------------------
(* Store *)

Init ==
    /\ users = {}
    /\ conversations = {}
    /\ messages = << >>
    /\ prompt_templates = {}
    /\ seq = [users |-> 0, conversations |-> 0, messages |-> 0,
              prompt_templates |-> 0]
    /\ api_clients = EmptyMap
    /\ now = 0
    /\ ret = Ret("init", << >>, NULL, NULL)
    /\ request = NoRequest

Tick ==
    /\ now < MaxTime
    /\ now' = now + 1
    /\ UNCHANGED <<users, conversations, messages, prompt_templates, seq,
                   api_clients, ret, request>>

(* A new DeepSeekChat on the same database file: the tables persist, the   *)
(* api_clients map starts empty.                                           *)
Restart ==
    /\ api_clients # EmptyMap
    /\ api_clients' = EmptyMap
    /\ ret' = Ret("restart", << >>, NULL, NULL)
    /\ request' = NoRequest
    /\ UNCHANGED <<users, conversations, messages, prompt_templates, seq, now>>

----------------------------------------------------------------------------
(* UserManager *)

Digit(d) ==
    CASE d = 0 -> "0" [] d = 1 -> "1" [] d = 2 -> "2" [] d = 3 -> "3"
      [] d = 4 -> "4" [] d = 5 -> "5" [] d = 6 -> "6" [] d = 7 -> "7"
      [] d = 8 -> "8" [] d = 9 -> "9"

RECURSIVE ToText(_)
(* The TEXT affinity of users.username converts an integer operand of a    *)
(* comparison to its decimal text.                                         *)
ToText(n) == IF n < 10 THEN Digit(n) ELSE ToText(n \div 10) \o Digit(n % 10)

(* SELECT * FROM users WHERE username = ? : the matching rows (0 or 1).    *)
get_user(username) == { u \in users : u.username = username }

get_user_api_key(user_id) == { u.api_key : u \in { x \in users : x.user_id = user_id } }

(* INSERT INTO users; UNIQUE(username) raises IntegrityError before any    *)
(* change.  op is the name of the operation the caller reports.            *)
create_user(op, username, api_key) ==
    IF get_user(username) # {}
    THEN /\ ret' = Ret(op, <<username, api_key>>, "IntegrityError", NULL)
         /\ UNCHANGED <<users, seq>>
    ELSE /\ seq.users < MaxUsers
         /\ users' = users \cup { [user_id |-> seq.users + 1,
                                   username |-> username,
                                   api_key |-> api_key] }
         /\ seq' = [seq EXCEPT !.users = @ + 1]
         /\ ret' = Ret(op, <<username, api_key>>, NULL, seq.users + 1)

CreateUser(username, api_key) ==
    /\ create_user("create_user", username, api_key)
    /\ request' = NoRequest
    /\ UNCHANGED <<conversations, messages, prompt_templates, api_clients, now>>

UpdateUserApiKey(user_id, api_key) ==
    /\ users' = { IF u.user_id = user_id THEN [u EXCEPT !.api_key = api_key] ELSE u
                  : u \in users }
    /\ ret' = Ret("update_user_api_key", <<user_id, api_key>>, NULL, NULL)
    /\ request' = NoRequest
    /\ UNCHANGED <<conversations, messages, prompt_templates, seq, api_clients, now>>

----------------------------------------------------------------------------
(* ConversationManager *)

(* SELECT * FROM conversations WHERE conversation_id = ? : 0 or 1 rows.    *)
get_conversation(conversation_id) ==
    { c \in conversations : c.conversation_id = conversation_id }

(* ConversationManager.create_conversation called on its own: the row is  *)
(* inserted and no message is added.                                       *)
ConversationManagerCreate(user_id, title, model) ==
    /\ seq.conversations < MaxConvs
    /\ conversations' = conversations \cup
          {[conversation_id |-> seq.conversations + 1, user_id |-> user_id,
            title |-> title, model |-> model]}
    /\ seq' = [seq EXCEPT !.conversations = @ + 1]
    /\ ret' = Ret("conversation_manager.create_conversation",
                  <<user_id, title, model>>, NULL, seq.conversations + 1)
    /\ request' = NoRequest
    /\ UNCHANGED <<users, messages, prompt_templates, api_clients, now>>

(* INSERT INTO conversations: the new row and the advanced key sequence.   *)
(* No check that user_id names a user.                                     *)
NewConversation(user_id, title, model) ==
    [conversation_id |-> seq.conversations + 1, user_id |-> user_id,
     title |-> title, model |-> model]

(* Mutant: the UPDATE is reported but never reaches the row.               *)
UpdateConversationModel_NoWrite(conversation_id, model) ==
    /\ ret' = Ret("update_conversation_model", <<conversation_id, model>>, NULL,
                  get_conversation(conversation_id) # {})
    /\ request' = NoRequest
    /\ UNCHANGED <<users, conversations, messages, prompt_templates, seq,
                   api_clients, now>>

UpdateConversationModel(conversation_id, model) ==
    /\ conversations' =
          { IF c.conversation_id = conversation_id THEN [c EXCEPT !.model = model] ELSE c
            : c \in conversations }
    /\ ret' = Ret("update_conversation_model", <<conversation_id, model>>, NULL,
                  get_conversation(conversation_id) # {})
    /\ request' = NoRequest
    /\ UNCHANGED <<users, messages, prompt_templates, seq, api_clients, now>>

(* Mutant: the conversation row is deleted, its messages are not. *)
DeleteConversation_KeepsMessages(conversation_id) ==
    /\ conversations' = conversations \ get_conversation(conversation_id)
    /\ ret' = Ret("delete_conversation", <<conversation_id>>, NULL,
                  get_conversation(conversation_id) # {})
    /\ request' = NoRequest
    /\ UNCHANGED <<users, messages, prompt_templates, seq, api_clients, now>>

(* Mutant: returns early, deleting nothing, when no conversation row has   *)
(* the id.                                                                 *)
DeleteConversation_SkipsWhenAbsent(conversation_id) ==
    /\ messages' = IF get_conversation(conversation_id) = {} THEN messages
                   ELSE SelectSeq(messages,
                                  LAMBDA m : m.conversation_id # conversation_id)
    /\ conversations' = conversations \ get_conversation(conversation_id)
    /\ ret' = Ret("delete_conversation", <<conversation_id>>, NULL,
                  get_conversation(conversation_id) # {})
    /\ request' = NoRequest
    /\ UNCHANGED <<users, prompt_templates, seq, api_clients, now>>

(* Mutant: the DELETE on messages has no WHERE clause.                     *)
DeleteConversation_AllMessages(conversation_id) ==
    /\ messages' = << >>
    /\ conversations' = conversations \ get_conversation(conversation_id)
    /\ ret' = Ret("delete_conversation", <<conversation_id>>, NULL,
                  get_conversation(conversation_id) # {})
    /\ request' = NoRequest
    /\ UNCHANGED <<users, prompt_templates, seq, api_clients, now>>

(* DELETE FROM messages WHERE conversation_id = ?, then DELETE FROM        *)
(* conversations WHERE conversation_id = ?; rowcount is that of the second *)
(* statement.                                                              *)
DeleteConversation(conversation_id) ==
    /\ messages' = SelectSeq(messages, LAMBDA m : m.conversation_id # conversation_id)
    /\ conversations' = conversations \ get_conversation(conversation_id)
    /\ ret' = Ret("delete_conversation", <<conversation_id>>, NULL,
                  get_conversation(conversation_id) # {})
    /\ request' = NoRequest
    /\ UNCHANGED <<users, prompt_templates, seq, api_clients, now>>

----------------------------------------------------------------------------
(* MessageManager *)

(* INSERT INTO messages: the table after the insert, rows in rowid order.  *)
(* No check that conversation_id names a conversation (the FOREIGN KEY     *)
(* clause is declared, but the connection never enables foreign_keys) nor  *)
(* that role is one of the three roles.                                    *)
add_message(msgs, message_id, conversation_id, role, content, reasoning_content, t) ==
    Append(msgs, [message_id |-> message_id,
                  conversation_id |-> conversation_id,
                  role |-> role,
                  content |-> content,
                  reasoning_content |-> reasoning_content,
                  created_at |-> t])

AddMessage(conversation_id, role, content, reasoning_content) ==
    /\ seq.messages < MaxMsgs
    /\ messages' = add_message(messages, seq.messages + 1, conversation_id, role,
                               content, reasoning_content, now)
    /\ seq' = [seq EXCEPT !.messages = @ + 1]
    /\ ret' = Ret("add_message", <<conversation_id, role, content, reasoning_content>>,
                  NULL, seq.messages + 1)
    /\ request' = NoRequest
    /\ UNCHANGED <<users, conversations, prompt_templates, api_clients, now>>

(* The rows of one conversation, in rowid (insertion) order.               *)
RowsOf(msgs, conversation_id) ==
    SelectSeq(msgs, LAMBDA m : m.conversation_id = conversation_id)

(* ... ORDER BY created_at ASC: every arrangement of the rows in which     *)
(* created_at never decreases.  Rows with equal created_at have no         *)
(* specified relative order.                                               *)
OrderByCreatedAt(rows) ==
    { [i \in 1..Len(rows) |-> rows[p[i]]] :
        p \in { q \in Permutations(1..Len(rows)) :
                  \A i, j \in 1..Len(rows) :
                      i < j => rows[q[i]].created_at <= rows[q[j]].created_at } }

(* The possible results of get_conversation_messages.                      *)
get_conversation_messages(msgs, conversation_id) ==
    OrderByCreatedAt(RowsOf(msgs, conversation_id))

Formatted(rows) ==
    [i \in 1..Len(rows) |-> [role |-> rows[i].role, content |-> rows[i].content]]

(* The possible results of get_formatted_messages.                         *)
get_formatted_messages(msgs, conversation_id) ==
    { Formatted(r) : r \in OrderByCreatedAt(RowsOf(msgs, conversation_id)) }

GetConversationMessages(conversation_id) ==
    /\ \E r \in get_conversation_messages(messages, conversation_id) :
          ret' = Ret("get_conversation_messages", <<conversation_id>>, NULL, r)
    /\ request' = NoRequest
    /\ UNCHANGED <<users, conversations, messages, prompt_templates, seq,
                   api_clients, now>>

GetFormattedMessages(conversation_id) ==
    /\ \E r \in get_formatted_messages(messages, conversation_id) :
          ret' = Ret("get_formatted_messages", <<conversation_id>>, NULL, r)
    /\ request' = NoRequest
    /\ UNCHANGED <<users, conversations, messages, prompt_templates, seq,
                   api_clients, now>>

----------------------------------------------------------------------------
(* DeepSeekAPI *)

(* Mutant: the comparison names another model.                             *)
is_reasoner_model_WrongName(model) == model = "deepseek-r1"

is_reasoner_model(model) == model = "deepseek-reasoner"

----------------------------------------------------------------------------
(* PromptManager *)

get_prompt(template_id) == { t \in prompt_templates : t.template_id = template_id }

TemplateRow(user_id, name) ==
    { t \in prompt_templates : t.user_id = user_id /\ t.name = name }

(* The rows of get_user_prompts, as a set (the query orders them by name). *)
get_user_prompts(user_id) == { t \in prompt_templates : t.user_id = user_id }

(* Mutant: on a name collision the row is replaced by a new row with a new *)
(* key (INSERT OR REPLACE) instead of updated in place.                    *)
CreatePrompt_Reinserts(user_id, name, content) ==
    /\ seq.prompt_templates < MaxTemplates
    /\ prompt_templates' = (prompt_templates \ TemplateRow(user_id, name)) \cup
          { [template_id |-> seq.prompt_templates + 1, user_id |-> user_id,
             name |-> name, content |-> content] }
    /\ seq' = [seq EXCEPT !.prompt_templates = @ + 1]
    /\ ret' = Ret("create_prompt", <<user_id, name, content>>, NULL,
                  seq.prompt_templates + 1)
    /\ request' = NoRequest
    /\ UNCHANGED <<users, conversations, messages, api_clients, now>>

(* Mutant: the UPDATE of the fallback filters on the name alone.           *)
CreatePrompt_UpdatesByName(user_id, name, content) ==
    /\ IF TemplateRow(user_id, name) = {}
       THEN /\ seq.prompt_templates < MaxTemplates
            /\ prompt_templates' = prompt_templates \cup
                  { [template_id |-> seq.prompt_templates + 1, user_id |-> user_id,
                     name |-> name, content |-> content] }
            /\ seq' = [seq EXCEPT !.prompt_templates = @ + 1]
            /\ ret' = Ret("create_prompt", <<user_id, name, content>>, NULL,
                          seq.prompt_templates + 1)
       ELSE /\ prompt_templates' =
                  { IF t.name = name THEN [t EXCEPT !.content = content] ELSE t
                    : t \in prompt_templates }
            /\ ret' = Ret("create_prompt", <<user_id, name, content>>, NULL,
                          (CHOOSE t \in TemplateRow(user_id, name) : TRUE).template_id)
            /\ UNCHANGED seq
    /\ request' = NoRequest
    /\ UNCHANGED <<users, conversations, messages, api_clients, now>>

(* INSERT; on the UNIQUE(user_id, name) IntegrityError, UPDATE the content *)
(* of the existing row and SELECT its template_id.                         *)
CreatePrompt(user_id, name, content) ==
    /\ IF TemplateRow(user_id, name) = {}
       THEN /\ seq.prompt_templates < MaxTemplates
            /\ prompt_templates' = prompt_templates \cup
                  { [template_id |-> seq.prompt_templates + 1, user_id |-> user_id,
                     name |-> name, content |-> content] }
            /\ seq' = [seq EXCEPT !.prompt_templates = @ + 1]
            /\ ret' = Ret("create_prompt", <<user_id, name, content>>, NULL,
                          seq.prompt_templates + 1)
       ELSE /\ prompt_templates' =
                  { IF t.user_id = user_id /\ t.name = name
                    THEN [t EXCEPT !.content = content] ELSE t
                    : t \in prompt_templates }
            /\ ret' = Ret("create_prompt", <<user_id, name, content>>, NULL,
                          (CHOOSE t \in TemplateRow(user_id, name) : TRUE).template_id)
            /\ UNCHANGED seq
    /\ request' = NoRequest
    /\ UNCHANGED <<users, conversations, messages, api_clients, now>>

DeletePrompt(template_id) ==
    /\ prompt_templates' = prompt_templates \ get_prompt(template_id)
    /\ ret' = Ret("delete_prompt", <<template_id>>, NULL, get_prompt(template_id) # {})
    /\ request' = NoRequest
    /\ UNCHANGED <<users, conversations, messages, seq, api_clients, now>>

----------------------------------------------------------------------------
(* DeepSeekChat *)

(* Mutant: the client is cached whether or not create_user raised.         *)
RegisterUser_CachesAnyway(username, api_key) ==
    /\ create_user("register_user", username, api_key)
    /\ api_clients' = Put(api_clients, seq.users + 1, api_key)
    /\ request' = NoRequest
    /\ UNCHANGED <<conversations, messages, prompt_templates, now>>

(* create_user, then api_clients[user_id] = DeepSeekAPI(api_key); the      *)
(* IntegrityError of create_user leaves before the assignment.             *)
RegisterUser(username, api_key) ==
    /\ create_user("register_user", username, api_key)
    /\ api_clients' = IF get_user(username) # {}
                      THEN api_clients
                      ELSE Put(api_clients, seq.users + 1, api_key)
    /\ request' = NoRequest
    /\ UNCHANGED <<conversations, messages, prompt_templates, now>>

(* get_api_client: the cache after the lookup.  On a miss the facade calls *)
(* user_manager.get_user(user_id): the user id is compared with the        *)
(* username column.                                                        *)
get_api_client(user_id) ==
    IF user_id \in DOMAIN api_clients
    THEN api_clients
    ELSE IF get_user(ToText(user_id)) # {}
         THEN Put(api_clients, user_id,
                  (CHOOSE u \in get_user(ToText(user_id)) : TRUE).api_key)
         ELSE api_clients

CreateConversation(user_id, title, model, system_prompt) ==
    /\ seq.conversations < MaxConvs
    /\ seq.messages < MaxMsgs
    /\ conversations' = conversations \cup {NewConversation(user_id, title, model)}
    /\ messages' = add_message(messages, seq.messages + 1, seq.conversations + 1,
                               "system", system_prompt, NULL, now)
    /\ seq' = [seq EXCEPT !.conversations = @ + 1, !.messages = @ + 1]
    /\ ret' = Ret("create_conversation", <<user_id, title, model, system_prompt>>,
                  NULL, seq.conversations + 1)
    /\ request' = NoRequest
    /\ UNCHANGED <<users, prompt_templates, api_clients, now>>

CreateConversationWithPrompt(user_id, title, model, prompt_id) ==
    /\ IF get_prompt(prompt_id) = {}
       THEN /\ ret' = Ret("create_conversation_with_prompt",
                          <<user_id, title, model, prompt_id>>, "NotFound", NULL)
            /\ UNCHANGED <<conversations, messages, seq>>
       ELSE /\ seq.conversations < MaxConvs
            /\ seq.messages < MaxMsgs
            /\ conversations' = conversations \cup {NewConversation(user_id, title, model)}
            /\ messages' = add_message(messages, seq.messages + 1, seq.conversations + 1,
                                       "system",
                                       (CHOOSE t \in get_prompt(prompt_id) : TRUE).content,
                                       NULL, now)
            /\ seq' = [seq EXCEPT !.conversations = @ + 1, !.messages = @ + 1]
            /\ ret' = Ret("create_conversation_with_prompt",
                          <<user_id, title, model, prompt_id>>, NULL,
                          seq.conversations + 1)
    /\ request' = NoRequest
    /\ UNCHANGED <<users, prompt_templates, api_clients, now>>

(* Mutant: the user message is appended before the conversation is looked  *)
(* up.                                                                     *)
SendNotFound_AppendsFirst(user_id, conversation_id, content) ==
    /\ seq.messages < MaxMsgs
    /\ messages' = add_message(messages, seq.messages + 1, conversation_id,
                               "user", content, NULL, now)
    /\ seq' = [seq EXCEPT !.messages = @ + 1]
    /\ ret' = Ret("send_message", <<user_id, conversation_id, content>>,
                  "NotFound", NULL)
    /\ request' = NoRequest
    /\ UNCHANGED <<users, conversations, prompt_templates, api_clients, now>>

(* send_message on a conversation id with no row: ValueError before any   *)
(* write.                                                                  *)
SendNotFound(user_id, conversation_id, content) ==
    /\ ret' = Ret("send_message", <<user_id, conversation_id, content>>,
                  "NotFound", NULL)
    /\ request' = NoRequest
    /\ UNCHANGED <<users, conversations, messages, prompt_templates, seq,
                   api_clients, now>>

(* Mutant: a send that fails after the existence check removes the user    *)
(* message it had appended.                                                *)
SendFound_RollsBack(user_id, conversation_id, content, resp, t2) ==
    LET args == <<user_id, conversation_id, content>>
        conversation == CHOOSE c \in get_conversation(conversation_id) : TRUE
        withUser == add_message(messages, seq.messages + 1, conversation_id,
                                "user", content, NULL, now)
        clients == get_api_client(user_id)
        reasoning == IF is_reasoner_model(conversation.model)
                     THEN resp.reasoning_content ELSE NULL
    IN
      /\ seq.messages < MaxMsgs
      /\ api_clients' = clients
      /\ UNCHANGED <<users, conversations, prompt_templates>>
      /\ IF user_id \notin DOMAIN clients
         THEN /\ messages' = messages
              /\ seq' = [seq EXCEPT !.messages = @ + 1]
              /\ ret' = Ret("send_message", args, "InvalidCredential", NULL)
              /\ request' = NoRequest
              /\ UNCHANGED now
         ELSE
           \E formatted \in get_formatted_messages(withUser, conversation_id) :
             /\ request' = << [api_key |-> clients[user_id],
                               model |-> conversation.model,
                               messages |-> formatted] >>
             /\ now' = t2
             /\ IF resp.raised \/ reasoning = NoAttr
                THEN /\ messages' = messages
                     /\ seq' = [seq EXCEPT !.messages = @ + 1]
                     /\ ret' = Ret("send_message", args,
                                   IF resp.raised THEN "APIError"
                                   ELSE "AttributeError", NULL)
                ELSE /\ seq.messages + 2 <= MaxMsgs
                     /\ messages' = add_message(withUser, seq.messages + 2,
                                       conversation_id, "assistant", resp.content,
                                       reasoning, t2)
                     /\ seq' = [seq EXCEPT !.messages = @ + 2]
                     /\ ret' = Ret("send_message", args, NULL,
                                   IF is_reasoner_model(conversation.model)
                                   THEN [content |-> resp.content,
                                         reasoning_content |-> reasoning]
                                   ELSE [content |-> resp.content])

(* send_message on an existing conversation.  resp is what the external    *)
(* API does with the call (raise, or answer with content and possibly a    *)
(* reasoning_content attribute); t2 is the clock when the call is over.    *)
SendFound(user_id, conversation_id, content, resp, t2) ==
    LET args == <<user_id, conversation_id, content>>
        conversation == CHOOSE c \in get_conversation(conversation_id) : TRUE
        withUser == add_message(messages, seq.messages + 1, conversation_id,
                                "user", content, NULL, now)
        clients == get_api_client(user_id)
    IN
      /\ seq.messages < MaxMsgs
      /\ api_clients' = clients
      /\ UNCHANGED <<users, conversations, prompt_templates>>
      /\ IF user_id \notin DOMAIN clients
         THEN /\ messages' = withUser
              /\ seq' = [seq EXCEPT !.messages = @ + 1]
              /\ ret' = Ret("send_message", args, "InvalidCredential", NULL)
              /\ request' = NoRequest
              /\ UNCHANGED now
         ELSE
           \E formatted \in get_formatted_messages(withUser, conversation_id) :
             /\ request' = << [api_key |-> clients[user_id],
                               model |-> conversation.model,
                               messages |-> formatted] >>
             /\ now' = t2
             /\ IF resp.raised
                THEN /\ messages' = withUser
                     /\ seq' = [seq EXCEPT !.messages = @ + 1]
                     /\ ret' = Ret("send_message", args, "APIError", NULL)
                ELSE IF is_reasoner_model(conversation.model)
                THEN IF resp.reasoning_content = NoAttr
                     THEN /\ messages' = withUser
                          /\ seq' = [seq EXCEPT !.messages = @ + 1]
                          /\ ret' = Ret("send_message", args, "AttributeError", NULL)
                     ELSE /\ seq.messages + 2 <= MaxMsgs
                          /\ messages' = add_message(withUser, seq.messages + 2,
                                            conversation_id, "assistant", resp.content,
                                            resp.reasoning_content, t2)
                          /\ seq' = [seq EXCEPT !.messages = @ + 2]
                          /\ ret' = Ret("send_message", args, NULL,
                                        [content |-> resp.content,
                                         reasoning_content |-> resp.reasoning_content])
                ELSE /\ seq.messages + 2 <= MaxMsgs
                     /\ messages' = add_message(withUser, seq.messages + 2,
                                       conversation_id, "assistant", resp.content,
                                       NULL, t2)
                     /\ seq' = [seq EXCEPT !.messages = @ + 2]
                     /\ ret' = Ret("send_message", args, NULL,
                                   [content |-> resp.content])

SendMessage(user_id, conversation_id, content, resp, t2) ==
    IF get_conversation(conversation_id) = {}
    THEN SendNotFound(user_id, conversation_id, content)
    ELSE SendFound(user_id, conversation_id, content, resp, t2)

----------------------------------------------------------------------------
(* Specifications *)

(* Every operation, on every input. *)
Next ==
    \/ Tick
    \/ Restart
    \/ \E u \in Usernames, k \in Secrets : CreateUser(u, k)
    \/ \E u \in Usernames, k \in Secrets : RegisterUser(u, k)
    \/ \E u \in UserIds, k \in Secrets : UpdateUserApiKey(u, k)
    \/ \E u \in UserIds, t \in Titles, m \in Models, p \in Prompts :
          CreateConversation(u, t, m, p)
    \/ \E u \in UserIds, t \in Titles, m \in Models, p \in TemplateIds :
          CreateConversationWithPrompt(u, t, m, p)
    \/ \E c \in ConvIds, m \in Models : UpdateConversationModel(c, m)
    \/ \E c \in ConvIds : DeleteConversation(c)
    \/ \E c \in ConvIds, a \in AppendInputs : AddMessage(c, a[1], a[2], a[3])
    \/ \E c \in ConvIds : GetConversationMessages(c)
    \/ \E c \in ConvIds : GetFormattedMessages(c)
    \/ \E u \in UserIds, c \in ConvIds, x \in UserTexts, r \in Responses,
          t2 \in now..MaxTime : SendMessage(u, c, x, r, t2)
    \/ \E u \in UserIds, n \in Names, c \in TemplateContents : CreatePrompt(u, n, c)
    \/ \E t \in TemplateIds : DeletePrompt(t)

Spec == Init /\ [][Next]_vars

(* The user registry and the client cache. *)
NextUsers ==
    \/ Restart
    \/ \E u \in Usernames, k \in Secrets : CreateUser(u, k)
    \/ \E u \in Usernames, k \in Secrets : RegisterUser(u, k)
    \/ \E u \in UserIds, k \in Secrets : UpdateUserApiKey(u, k)

SpecUsers == Init /\ [][NextUsers]_vars

(* The prompt template registry. *)
NextPrompts ==
    \/ \E u \in UserIds, n \in Names, c \in TemplateContents : CreatePrompt(u, n, c)
    \/ \E t \in TemplateIds : DeletePrompt(t)

SpecPrompts == Init /\ [][NextPrompts]_vars

(* The message log and its two queries, under a running clock. *)
NextLog ==
    \/ Tick
    \/ \E t \in Titles, m \in Models, p \in Prompts : CreateConversation(1, t, m, p)
    \/ \E c \in ConvIds : DeleteConversation(c)
    \/ \E c \in ConvIds, a \in AppendInputs : AddMessage(c, a[1], a[2], a[3])
    \/ \E c \in ConvIds : GetConversationMessages(c)
    \/ \E c \in ConvIds : GetFormattedMessages(c)

SpecLog == Init /\ [][NextLog]_vars

(* One session of the facade: a registered user, conversations, direct     *)
(* appends of user messages, model switches, sends (by the registered user *)
(* id and by an id with no user row) and deletes.                          *)
NextChat ==
    \/ Tick
    \/ RegisterUser("alice", "k1")
    \/ \E t \in Titles, m \in Models, p \in Prompts : CreateConversation(1, t, m, p)
    \/ \E c \in ConvIds, m \in Models : UpdateConversationModel(c, m)
    \/ \E c \in ConvIds : DeleteConversation(c)
    \/ \E c \in ConvIds : AddMessage(c, "user", "hi", NULL)
    \/ \E u \in {1, 2}, c \in ConvIds, x \in UserTexts, r \in Responses,
          t2 \in now..MaxTime : SendMessage(u, c, x, r, t2)

SpecChat == Init /\ [][NextChat]_vars

(* Credentials across facade instances: users created with or without the  *)
(* facade, secrets updated, the facade restarted, and sends.               *)
NextCred ==
    \/ Restart
    \/ \E u \in Usernames, k \in Secrets : CreateUser(u, k)
    \/ \E u \in Usernames, k \in Secrets : RegisterUser(u, k)
    \/ \E u \in UserIds, k \in Secrets : UpdateUserApiKey(u, k)
    \/ \E u \in UserIds, t \in Titles, p \in Prompts :
          CreateConversation(u, t, "deepseek-chat", p)
    \/ \E u \in UserIds, c \in ConvIds, x \in UserTexts, r \in Responses :
          SendMessage(u, c, x, r, now)

SpecCred == Init /\ [][NextCred]_vars

(* Conversations started from templates, with template upserts and        *)
(* deletes and direct appends.                                             *)
NextFromTemplate ==
    \/ \E n \in Names, c \in TemplateContents : CreatePrompt(1, n, c)
    \/ \E t \in TemplateIds : DeletePrompt(t)
    \/ \E t \in Titles, m \in Models, p \in TemplateIds :
          CreateConversationWithPrompt(1, t, m, p)
    \/ \E c \in ConvIds : AddMessage(c, "user", "hi", NULL)

SpecFromTemplate == Init /\ [][NextFromTemplate]_vars

(* A session that changes its system prompt: each /prompt command of the  *)
(* demo appends one more system row to the conversation.                   *)
NextPromptChange ==
    \/ Tick
    \/ RegisterUser("alice", "k1")
    \/ \E t \in Titles, p \in Prompts : CreateConversation(1, t, "deepseek-chat", p)
    \/ \E c \in ConvIds, p \in NewPrompts : AddMessage(c, "system", p, NULL)
    \/ \E c \in ConvIds, x \in UserTexts, r \in Responses, t2 \in now..MaxTime :
          SendMessage(1, c, x, r, t2)

SpecPromptChange == Init /\ [][NextPromptChange]_vars

(* One session using every kind of operation: the user registry, the      *)
(* conversations, the message log, sends and the templates.                *)
NextSession ==
    \/ RegisterUser("alice", "k1")
    \/ \E t \in Titles, p \in Prompts : CreateConversation(1, t, "deepseek-chat", p)
    \/ \E c \in ConvIds : UpdateConversationModel(c, "deepseek-reasoner")
    \/ \E c \in ConvIds : DeleteConversation(c)
    \/ \E c \in ConvIds : AddMessage(c, "user", "hi", NULL)
    \/ \E c \in ConvIds, x \in UserTexts, r \in Responses : SendMessage(1, c, x, r, now)
    \/ CreatePrompt(1, "assistant", "v1")
    \/ \E t \in TemplateIds : DeletePrompt(t)

SpecSession == Init /\ [][NextSession]_vars

(* Sends that fail and sends that succeed on conversations created        *)
(* through the conversation manager: user 1 has no client until it is      *)
(* registered.                                                             *)
NextRetry ==
    \/ Tick
    \/ RegisterUser("alice", "k1")
    \/ \E t \in Titles : ConversationManagerCreate(1, t, "deepseek-chat")
    \/ \E c \in ConvIds, x \in Questions, r \in Responses :
          SendMessage(1, c, x, r, now)

SpecRetry == Init /\ [][NextRetry]_vars

----------------------------------------------------------------------------
(* Claims *)

(* C1: history(C) returns the messages appended to C in the exact order    *)
(* they were appended, and projection_for_api(C) returns the same entries  *)
(* in the same order with role and content only, also when messages share *)
(* a creation timestamp.                                                   *)
C1_HistoryInAppendOrder ==
    /\ ret.op = "get_conversation_messages"
          => ret.val = RowsOf(messages, ret.args[1])
    /\ ret.op = "get_formatted_messages"
          => ret.val = Formatted(RowsOf(messages, ret.args[1]))

(* C2: after delete(C) no message row and no conversation row with id C    *)
(* remains: get(C) is absent and history(C) is the empty sequence.         *)
C2_DeleteRemovesAll ==
    ret.op = "delete_conversation" =>
        /\ get_conversation(ret.args[1]) = {}
        /\ \A i \in 1..Len(messages) : messages[i].conversation_id # ret.args[1]
        /\ get_conversation_messages(messages, ret.args[1]) = { << >> }

(* A delete of an existing conversation that emptied a table which had     *)
(* held a system message, a user message and an assistant reply.           *)
C2_Witness ==
    /\ ret.op = "delete_conversation"
    /\ ret.val = TRUE
    /\ seq.messages = 3
    /\ seq.conversations = 1
    /\ messages = << >>

(* C3: an upsert under a (user, name) that already has a row with id T     *)
(* returns T and leaves that row with the new content; no upsert changes   *)
(* the id, user or name of any existing row.                               *)
C3_UpsertKeepsId ==
    [][ret'.op = "create_prompt" =>
          /\ \A t \in TemplateRow(ret'.args[1], ret'.args[2]) :
                /\ ret'.val = t.template_id
                /\ [t EXCEPT !.content = ret'.args[3]] \in prompt_templates'
          /\ \A t \in prompt_templates :
                \E t2 \in prompt_templates' :
                    /\ t2.template_id = t.template_id
                    /\ t2.user_id = t.user_id
                    /\ t2.name = t.name
       ]_vars

(* The last upsert returned id 1 although a second row had been inserted   *)
(* since: it met the existing row 1, which now carries its content.        *)
C3_Witness ==
    /\ ret.op = "create_prompt"
    /\ ret.val = 1
    /\ seq.prompt_templates = 2
    /\ ret.args[3] = "v2"
    /\ \E t \in prompt_templates : t.template_id = 1 /\ t.content = "v2"

(* C4: there is at most one template per (user id, name); after an upsert  *)
(* the row of its (user, name) carries the upserted content, and no other  *)
(* operation, nor an upsert under another (user, name), changes or creates *)
(* a row of that (user, name).                                             *)
C4_OnePerUserName ==
    [][/\ \A a, b \in prompt_templates' :
             (a.user_id = b.user_id /\ a.name = b.name) => a = b
       /\ \A u \in UserIds, n \in Names :
             IF ret'.op = "create_prompt" /\ ret'.args[1] = u /\ ret'.args[2] = n
             THEN \E t \in prompt_templates' :
                      t.user_id = u /\ t.name = n /\ t.content = ret'.args[3]
             ELSE \A t \in prompt_templates' :
                      (t.user_id = u /\ t.name = n) => t \in prompt_templates
      ]_vars

(* Two users hold a template of the same name with different contents,     *)
(* after an upsert that overwrote one of them.                             *)
C4_Witness ==
    /\ ret.op = "create_prompt"
    /\ ret.val < seq.prompt_templates
    /\ \E a, b \in prompt_templates :
          a.name = b.name /\ a.user_id # b.user_id /\ a.content # b.content

(* C5: creating or registering a user under a username that exists raises  *)
(* the duplicate-key error and changes neither the users table, nor the    *)
(* key sequence, nor the client cache.                                     *)
C5_DuplicateUsernameFails ==
    [][(ret'.op \in {"create_user", "register_user"} /\ get_user(ret'.args[1]) # {})
          => /\ ret'.err = "IntegrityError"
             /\ users' = users
             /\ seq' = seq
             /\ api_clients' = api_clients
      ]_vars

(* A register under an existing username, with another secret, failed.     *)
C5_Witness ==
    /\ ret.op = "register_user"
    /\ ret.err = "IntegrityError"
    /\ \E u \in get_user(ret.args[1]) : u.api_key # ret.args[2]

(* C6: a send that reaches the external API submits the model stored for   *)
(* its conversation at that moment; when the operation before it was a     *)
(* successful update_model(C, m) on the same conversation, that model is   *)
(* m, and the result carries a reasoning trace exactly when the submitted  *)
(* model is the reasoning model.                                           *)
C6_SendUsesStoredModel ==
    [][(ret'.op = "send_message" /\ request' # NoRequest
            /\ seq'.messages # seq.messages)
          => \A conv \in get_conversation(ret'.args[2]) :
               /\ request'[1].model = conv.model
               /\ (ret.op = "update_conversation_model"
                      /\ ret.args[1] = ret'.args[2] /\ ret.val = TRUE)
                    => request'[1].model = ret.args[2]
               /\ ret'.err = NULL
                    => (("reasoning_content" \in DOMAIN ret'.val)
                          <=> request'[1].model = "deepseek-reasoner")
      ]_vars

(* update_model has just switched an existing conversation to the          *)
(* reasoning model, the user's client is cached and there is room for a    *)
(* send: the next operation can be the send the claim is about.            *)
C6_Witness ==
    /\ ret.op = "update_conversation_model"
    /\ ret.val = TRUE
    /\ ret.args[2] = "deepseek-reasoner"
    /\ messages # << >>
    /\ messages[1].conversation_id = ret.args[1]
    /\ 1 \in DOMAIN api_clients
    /\ seq.messages + 2 <= MaxMsgs

(* C7: a send on a conversation id with no conversation row fails with     *)
(* NotFound, appends no message, makes no external call and leaves the     *)
(* client cache and the tables unchanged.                                  *)
C7_SendNotFoundChangesNothing ==
    [][(ret'.op = "send_message" /\ get_conversation(ret'.args[2]) = {})
          => /\ ret'.err = "NotFound"
             /\ request' = NoRequest
             /\ messages' = messages
             /\ seq' = seq
             /\ api_clients' = api_clients
             /\ conversations' = conversations
             /\ users' = users
      ]_vars

(* A send by the registered user failed with NotFound on an id that has no *)
(* conversation row but does have message rows.                            *)
C7_Witness ==
    /\ ret.op = "send_message"
    /\ ret.err = "NotFound"
    /\ ret.args[1] \in DOMAIN api_clients
    /\ RowsOf(messages, ret.args[2]) # << >>

(* C8: send fails with InvalidCredential only for a user id that has no    *)
(* row in the users table; a stored user's client is resolved from the     *)
(* cache or from the stored secret.                                        *)
C8_StoredUserResolves ==
    (ret.op = "send_message" /\ ret.err = "InvalidCredential")
        => get_user_api_key(ret.args[1]) = {}

(* C9: a successful send adds exactly two rows, the user message and one   *)
(* assistant row with the reply content; for the reasoning model the row   *)
(* and the result carry the reasoning trace, for any other model the row's *)
(* reasoning is NULL and the result has content only, whatever the         *)
(* response carried.                                                       *)
C9_OneAssistantRow ==
    [][(ret'.op = "send_message" /\ ret'.err = NULL
            /\ seq'.messages # seq.messages)
          => \A conv \in get_conversation(ret'.args[2]) :
               /\ Len(messages') = Len(messages) + 2
               /\ SubSeq(messages', 1, Len(messages)) = messages
               /\ messages'[Len(messages) + 1].role = "user"
               /\ messages'[Len(messages) + 1].conversation_id = ret'.args[2]
               /\ messages'[Len(messages) + 2].role = "assistant"
               /\ messages'[Len(messages) + 2].conversation_id = ret'.args[2]
               /\ messages'[Len(messages) + 2].content = ret'.val.content
               /\ IF conv.model = "deepseek-reasoner"
                  THEN /\ DOMAIN ret'.val = {"content", "reasoning_content"}
                       /\ messages'[Len(messages) + 2].reasoning_content
                             = ret'.val.reasoning_content
                       /\ ret'.val.reasoning_content \notin {NULL, NoAttr}
                  ELSE /\ DOMAIN ret'.val = {"content"}
                       /\ messages'[Len(messages) + 2].reasoning_content = NULL
      ]_vars

(* A send on a reasoning-model conversation succeeded: the last row is the *)
(* assistant reply with its reasoning trace.                               *)
C9_Witness ==
    /\ ret.op = "send_message"
    /\ ret.err = NULL
    /\ "reasoning_content" \in DOMAIN ret.val
    /\ Len(messages) >= 2
    /\ messages[Len(messages)].role = "assistant"
    /\ messages[Len(messages)].reasoning_content = "r1"
    /\ messages[Len(messages) - 1].role = "user"

(* C10: right after start_conversation returns C the transcript of C is    *)
(* exactly one system message with the given prompt, and after a following *)
(* append of the user message "hi" the projection of C is exactly          *)
(* [{system, p}, {user, "hi"}].                                            *)
C10_NewConversationStartsClean ==
    [][/\ ret'.op = "create_conversation"
            => get_formatted_messages(messages', ret'.val)
                  = { << [role |-> "system", content |-> ret'.args[4]] >> }
       /\ (ret.op = "create_conversation" /\ ret'.op = "add_message"
              /\ ret'.args = <<ret.val, "user", "hi", NULL>>)
            => get_formatted_messages(messages', ret.val)
                  = { << [role |-> "system", content |-> ret.args[4]],
                         [role |-> "user", content |-> "hi"] >> }
      ]_vars

(* C11: start_conversation_from_template fails with NotFound when the      *)
(* template id has no row, and then creates no conversation row and        *)
(* appends no message; when the template exists it creates one             *)
(* conversation, and the only message of that conversation is a system     *)
(* message with the template's current content.                            *)
C11_FromTemplate ==
    [][ret'.op = "create_conversation_with_prompt" =>
          IF get_prompt(ret'.args[4]) = {}
          THEN /\ ret'.err = "NotFound"
               /\ conversations' = conversations
               /\ messages' = messages
               /\ seq' = seq
          ELSE /\ ret'.err = NULL
               /\ get_conversation(ret'.val) = {}
               /\ conversations' = conversations \cup
                     { [conversation_id |-> ret'.val, user_id |-> ret'.args[1],
                        title |-> ret'.args[2], model |-> ret'.args[3]] }
               /\ \A t \in get_prompt(ret'.args[4]) :
                     get_formatted_messages(messages', ret'.val)
                        = { << [role |-> "system", content |-> t.content] >> }
      ]_vars

(* C12: every send that reaches the external API submits every system row *)
(* appended to its conversation so far, each at the position it has in the *)
(* transcript.                                                             *)
C12_AllSystemRowsSubmitted ==
    [][(ret'.op = "send_message" /\ request' # NoRequest
            /\ seq'.messages # seq.messages)
          => \A i \in 1..Len(RowsOf(messages, ret'.args[2])) :
                RowsOf(messages, ret'.args[2])[i].role = "system"
                  => /\ i <= Len(request'[1].messages)
                     /\ request'[1].messages[i]
                           = [role |-> "system",
                              content |-> RowsOf(messages, ret'.args[2])[i].content]
      ]_vars

C14_DeleteResult ==
    [][(ret'.op = "delete_conversation" /\ now' = now) =>
          /\ ret'.val = (get_conversation(ret'.args[1]) # {})
          /\ RowsOf(messages', ret'.args[1]) = << >>
          /\ conversations' = {c \in conversations : c.conversation_id # ret'.args[1]}
          /\ \A d \in ConvIds \ {ret'.args[1]} :
                RowsOf(messages', d) = RowsOf(messages, d)
          /\ UNCHANGED <<users, prompt_templates, api_clients>>
      ]_vars

(* A delete of an id no conversation ever had returned false and removed   *)
(* the orphaned row of that id, keeping the row of the other id.           *)
C14_Witness ==
    /\ ret.op = "delete_conversation"
    /\ ret.val = FALSE
    /\ seq.conversations = 0
    /\ seq.messages = 2
    /\ Len(messages) = 1
    /\ messages[1].conversation_id # ret.args[1]

(* C15: on a successful send_message(user, C, content) the message list    *)
(* submitted to the API is a projection of C's rows as they were before    *)
(* the call followed by the new user message as last entry, and C's rows   *)
(* grow by exactly two: the user message, then the assistant reply.        *)
C15_SendOrder ==
    [][(ret'.op = "send_message" /\ ret'.err = NULL /\ seq'.messages # seq.messages) =>
          LET c == ret'.args[2]
              user == [role |-> "user", content |-> ret'.args[3]]
              before == RowsOf(messages, c)
              after == RowsOf(messages', c)
          IN /\ \E p \in get_formatted_messages(messages, c) :
                   request'[1].messages = Append(p, user)
             /\ Len(after) = Len(before) + 2
             /\ SubSeq(after, 1, Len(before)) = before
             /\ Formatted(after)[Len(before) + 1] = user
             /\ after[Len(before) + 2].role = "assistant"
             /\ after[Len(before) + 2].content = ret'.val.content
      ]_vars

(* Count(s, e): the number of occurrences of e in the sequence s. *)
Count(s, e) == Cardinality({i \in 1..Len(s) : s[i] = e})

(* C16: a send_message on an existing conversation that fails after the    *)
(* existence check appends exactly the user message and nothing else, and  *)
(* leaves every earlier row; and every send that reaches the API submits   *)
(* all the rows of the conversation, the user messages of earlier failed   *)
(* sends included, together with the new user message.                     *)
C16_FailedSendKeepsUserMessage ==
    [][(ret'.op = "send_message" /\ seq'.messages # seq.messages) =>
          LET c == ret'.args[2]
              withUser == add_message(messages, seq.messages + 1, c, "user",
                                      ret'.args[3], NULL, now)
              submitted == Formatted(RowsOf(withUser, c))
          IN /\ ret'.err # NULL => /\ messages' = withUser
                                   /\ seq'.messages = seq.messages + 1
                                   /\ conversations' = conversations
             /\ request' # NoRequest =>
                   /\ Len(request') = 1
                   /\ Len(request'[1].messages) = Len(submitted)
                   /\ \A i \in 1..Len(submitted) :
                         Count(request'[1].messages, submitted[i])
                            = Count(submitted, submitted[i])
      ]_vars

(* Two failed sends left their user rows and no assistant row; the next    *)
(* send succeeded, with a request of the earlier unanswered message and    *)
(* the new one.                                                            *)
C16_Witness ==
    /\ ret.op = "send_message"
    /\ ret.err = NULL
    /\ Len(messages) = 3
    /\ messages[1].role = "user"
    /\ messages[2].role = "user"
    /\ messages[1].content # messages[2].content
    /\ messages[3].role = "assistant"
    /\ request # NoRequest
    /\ Len(request[1].messages) = 2
    /\ Count(request[1].messages, [role |-> "user", content |-> messages[1].content]) = 1

(* C17: whenever the facade holds a cached client for user id u, the       *)
(* client was built from the secret currently stored for the user with     *)
(* id u.                                                                   *)
C17_CachedClientCurrent ==
    \A u \in DOMAIN api_clients : get_user_api_key(u) = {api_clients[u]}

====
